---- MODULE Spec2Model ----
(***************************************************************************)
(* Respiratory sinus arrhythmia (neurokit2/ecg/ecg_rsa.py).                *)
(*                                                                         *)
(* One call of ecg_rsa() is a run of the state machine                     *)
(*   format -> cycles -> peaks -> p2t -> pb -> assemble -> done            *)
(* and any step may end the call in "failed" with the exception it raised. *)
(* Row indices are Python's (0-based); a column is a sequence whose        *)
(* element r+1 is row r.  Reals are exact: a rational is a record          *)
(* [k |-> "num", n |-> numerator, d |-> denominator], its logarithm the    *)
(* same under the tag "log", and two means of logarithms are compared      *)
(* through the prime factorisations of the numerators and denominators     *)
(* (the logarithms of the primes are linearly independent over the         *)
(* rationals).                                                             *)
(***************************************************************************)
EXTENDS Integers, Sequences, FiniteSets, Bags, TLC

VARIABLES
    ecg_signals,        \* argument: the cardiac table
    rsp_signals,        \* argument: the respiration table (or absent)
    rpeaks_arg,         \* argument: the beat-index list (or absent)
    sampling_rate,      \* argument
    continuous,         \* argument
    rsp_processed,      \* what rsp_process(ecg_rsp(..)) yields when it is asked
    zero_mean_filtered, \* what the resampling and the two filters yield (2 Hz)
    pc,                 \* position of the call
    signals,            \* the aligned table
    ecg_period,         \* the heart-period series
    rpeaks,             \* the beat indices in use
    rsp_cycles,         \* result of _ecg_rsa_cycles
    rsp_onsets,         \* rsp_cycles["RSP_Inspiration_Onsets"]
    rsp_peaks,          \* the selected respiratory peaks
    cycles_rri,         \* P2T: the beats of each cycle
    rsa_values,         \* P2T: the per-cycle estimates
    rsa_p2t,            \* what _ecg_rsa_p2t returned
    epoch_logvar,       \* PB: log(var/1000) of every epoch
    rsa_pb,             \* what _ecg_rsa_pb returned
    rsa,                \* what ecg_rsa returned
    warnings,           \* the messages printed so far
    error               \* the exception that ended the call, if any

vars == <<ecg_signals, rsp_signals, rpeaks_arg, sampling_rate, continuous,
          rsp_processed, zero_mean_filtered, pc, signals, ecg_period, rpeaks,
          rsp_cycles, rsp_onsets, rsp_peaks, cycles_rri, rsa_values, rsa_p2t,
          epoch_logvar, rsa_pb, rsa, warnings, error>>

-----------------------------------------------------------------------------
(* Bounds of the model. *)

\* rows of the tables of the orchestrator specification
RowsOrch == 4
\* rows of the tables of the cycle-extraction specification
RowsCycles == 6
\* rows of the tables of the P2T specification
RowsP2T == 7
\* longest filtered residual (samples at 2 Hz) of the Porges-Bohrer specification
MaxSamples == 125

(* Constants of the program. *)

\* desired_sampling_rate=2, and "/ 2" in the time axis
ResampleRate == 2
\* "time // 30": seconds per epoch
EpochSeconds == 30
\* "epoch.var(axis=0) / 1000"
MsConversion == 1000
\* sampling_rate=1000, the default of ecg_rsa
DefaultSamplingRate == 1000

-----------------------------------------------------------------------------
(* numpy / pandas primitives *)

NaN == [k |-> "nan", n |-> 0, d |-> 1]
NegInf == [k |-> "-inf", n |-> 0, d |-> 1]
Num(a, b) == [k |-> "num", n |-> a, d |-> b]

\* The row indices 0 .. Len(col)-1, in order.
RowIndex(col) == [i \in 1..Len(col) |-> i - 1]

\* np.where(col == v)[0], np.argwhere(col == v)[:, 0]
np_where(col, v) == SelectSeq(RowIndex(col), LAMBDA r : col[r + 1] = v)

\* np.diff
np_diff(s) == [i \in 1..(Len(s) - 1) |-> s[i + 1] - s[i]]

RECURSIVE Insert(_, _)
Insert(x, s) ==
    IF s = <<>> THEN <<x>>
    ELSE IF x <= Head(s) THEN <<x>> \o s
    ELSE <<Head(s)>> \o Insert(x, Tail(s))

RECURSIVE np_sort(_)
np_sort(s) == IF s = <<>> THEN <<>> ELSE Insert(Head(s), np_sort(Tail(s)))

\* np.intersect1d(a, b, assume_unique=True): concatenate, sort, keep every
\* element equal to its successor.
np_intersect1d(a, b) ==
    LET aux == np_sort(a \o b)
        pos == SelectSeq([i \in 1..(Len(aux) - 1) |-> i],
                         LAMBDA i : aux[i] = aux[i + 1])
    IN  [j \in 1..Len(pos) |-> aux[pos[j]]]

RECURSIVE np_max(_)
np_max(s) ==
    IF Len(s) = 1 THEN s[1]
    ELSE LET m == np_max(Tail(s)) IN IF s[1] >= m THEN s[1] ELSE m

RECURSIVE np_min(_)
np_min(s) ==
    IF Len(s) = 1 THEN s[1]
    ELSE LET m == np_min(Tail(s)) IN IF s[1] <= m THEN s[1] ELSE m

RECURSIVE SeqSum(_)
SeqSum(s) == IF s = <<>> THEN 0 ELSE Head(s) + SeqSum(Tail(s))

IsNaN(v) == v.k = "nan"

\* The numerators of the entries that are numbers (all share the denominator
\* sampling_rate).
Numerators(values) ==
    LET kept == SelectSeq(values, LAMBDA v : ~IsNaN(v))
    IN  [i \in 1..Len(kept) |-> kept[i].n]

\* np.mean(values): not a number as soon as one entry is.
np_mean(values, sr) ==
    LET ks == Numerators(values)
    IN  IF Len(ks) = 0 \/ Len(ks) # Len(values) THEN NaN
        ELSE Num(SeqSum(ks), sr * Len(ks))

\* np.nanmean(values)
np_nanmean(values, sr) ==
    LET ks == Numerators(values)
    IN  IF Len(ks) = 0 THEN NaN ELSE Num(SeqSum(ks), sr * Len(ks))

\* np.nanstd(values, ddof=1): the square root of the returned "num", kept as
\* its square, sum((x - mean)^2) / (count - 1).
np_nanstd(values, sr) ==
    LET ks == Numerators(values)
        c  == Len(ks)
        sq == [i \in 1..c |-> ks[i] * ks[i]]
    IN  IF c - 1 <= 0 THEN NaN
        ELSE [k |-> "sqrt",
              n |-> c * SeqSum(sq) - SeqSum(ks) * SeqSum(ks),
              d |-> c * (c - 1) * sr * sr]

\* np.log of a rational: the argument is kept under the tag "log".
np_log(v) ==
    IF IsNaN(v) THEN NaN
    ELSE IF v.n = 0 THEN NegInf
    ELSE [k |-> "log", n |-> v.n, d |-> v.d]

\* len(pd.Series(values).index[pd.Series(values).isnull()])
CountNull(values) == Len(SelectSeq(values, IsNaN))

-----------------------------------------------------------------------------
(* Collaborators outside this file, by their contracts. *)

None == [k |-> "None"]

\* rpeaks=None, and rpeaks=<a list of indices>
NoRpeaks == [given |-> FALSE, list |-> <<>>]
Rpeaks(list) == [given |-> TRUE, list |-> list]

\* _signal_formatpeaks_sanitize(table): the indices of the table's peak-marker
\* column; NameError when the table has no such column.
sanitize_table(table) ==
    IF "ECG_R_Peaks" \in table.columns
    THEN [raised |-> "", peaks |-> np_where(table.ECG_R_Peaks, 1)]
    ELSE [raised |-> "NameError", peaks |-> <<>>]

\* _signal_formatpeaks_sanitize(list): the list in canonical index form.
sanitize_list(list) == [raised |-> "", peaks |-> list]

\* signal_rate(peaks, sampling_rate, desired_length): desired_length values.
signal_rate(peaks, sr, desired_length) == [i \in 1..desired_length |-> "rate"]

\* signal_interpolate(x_values, y_values, desired_length): desired_length values.
signal_interpolate(x_values, y_values, desired_length) ==
    [i \in 1..desired_length |-> "interpolated"]

-----------------------------------------------------------------------------
(* _ecg_rsa_cycles *)

\* As _ecg_rsa_cycles, with the expiration onsets taken where a phase ends
\* its first row.
_ecg_rsa_cycles_late(table) ==
    LET inspiration_onsets ==
            np_intersect1d(np_where(table.RSP_Phase, 1),
                           np_where(table.RSP_Phase_Completion, 0))
        expiration_onsets ==
            np_intersect1d(np_where(table.RSP_Phase, 0),
                           np_where(table.RSP_Phase_Completion, 1))
    IN  [RSP_Inspiration_Onsets |-> inspiration_onsets,
         RSP_Expiration_Onsets |-> expiration_onsets,
         RSP_Cycles_Length |-> np_diff(inspiration_onsets)]

_ecg_rsa_cycles(table) ==
    LET inspiration_onsets ==
            np_intersect1d(np_where(table.RSP_Phase, 1),
                           np_where(table.RSP_Phase_Completion, 0))
        expiration_onsets ==
            np_intersect1d(np_where(table.RSP_Phase, 0),
                           np_where(table.RSP_Phase_Completion, 0))
    IN  [RSP_Inspiration_Onsets |-> inspiration_onsets,
         RSP_Expiration_Onsets |-> expiration_onsets,
         RSP_Cycles_Length |-> np_diff(inspiration_onsets)]

-----------------------------------------------------------------------------
(* ecg_rsa, lines 132-138: the selection of the respiratory peaks.  Called *)
(* with at least one onset (rsp_onsets[0] raises IndexError otherwise).    *)

\* As PeaksAfter, keeping a peak on the first onset.
PeaksFrom(table, onsets) ==
    SelectSeq(np_where(table.RSP_Peaks, 1), LAMBDA p : p >= onsets[1])

PeaksAfter(table, onsets) ==
    SelectSeq(np_where(table.RSP_Peaks, 1), LAMBDA p : p > onsets[1])

select_peaks(table, onsets) ==
    LET after   == PeaksAfter(table, onsets)
        trimmed == IF Len(after) - Len(onsets) = 0
                   THEN SubSeq(after, 1, Len(after) - 1)
                   ELSE after
    IN  [rsp_peaks |-> trimmed,
         warned |-> (Len(trimmed) - Len(onsets) # -1)]

-----------------------------------------------------------------------------
(* _ecg_rsa_p2t *)

\* As p2t_cycles, with the end of the cycle included.
p2t_cycles_closed(onsets, beats) ==
    [idx \in 1..(Len(onsets) - 1) |->
        SelectSeq(beats, LAMBDA p : p >= onsets[idx] /\ p <= onsets[idx + 1])]

\* lines 168-172: the beats of every cycle
p2t_cycles(onsets, beats) ==
    [idx \in 1..(Len(onsets) - 1) |->
        SelectSeq(beats, LAMBDA p : p >= onsets[idx] /\ p < onsets[idx + 1])]

\* As p2t_values, asking for more than two intervals.
p2t_values_three(cycles, sr) ==
    [i \in 1..Len(cycles) |->
        LET RRis == np_diff(cycles[i])
        IN  IF Len(RRis) > 2 THEN Num(np_max(RRis) - np_min(RRis), sr) ELSE NaN]

\* lines 175-180: RRis = np.diff(cycle) / sampling_rate, and its range when it
\* has more than one entry
p2t_values(cycles, sr) ==
    [i \in 1..Len(cycles) |->
        LET RRis == np_diff(cycles[i])
        IN  IF Len(RRis) > 1 THEN Num(np_max(RRis) - np_min(RRis), sr) ELSE NaN]

\* lines 183-186
p2t_summary(values, sr) ==
    LET mean == np_nanmean(values, sr)
    IN  [RSA_P2T_Mean |-> mean,
         RSA_P2T_Mean_log |-> np_log(mean),
         RSA_P2T_SD |-> np_nanstd(values, sr),
         RSA_P2T_NoRSA |-> CountNull(values)]

_ecg_rsa_p2t(onsets, beats, sr, cont, period, peaks) ==
    LET cycles == p2t_cycles(onsets, beats)
        values == p2t_values(cycles, sr)
        mask   == [i \in 1..Len(values) |-> ~IsNaN(values[i])]
        kept   == SelectSeq(RowIndex(values), LAMBDA j : mask[j + 1])
    IN  IF ~cont
        THEN [raised |-> "", cycles |-> cycles, values |-> values,
              rsa |-> p2t_summary(values, sr)]
        \* rsp_peaks[~np.isnan(rsa_values)]: a boolean index must be as long
        \* as the array it indexes
        ELSE IF Len(mask) # Len(peaks)
        THEN [raised |-> "IndexError", cycles |-> cycles, values |-> values,
              rsa |-> <<>>]
        ELSE [raised |-> "", cycles |-> cycles, values |-> values,
              rsa |-> signal_interpolate(
                          [j \in 1..Len(kept) |-> peaks[kept[j] + 1]],
                          [j \in 1..Len(kept) |-> values[kept[j] + 1]],
                          Len(period))]

-----------------------------------------------------------------------------
(* _ecg_rsa_pb, from the filtered residual on (lines 217-229) *)

\* "Epoch Index": (k / 2) // 30 for sample k
EpochIndex(k) == k \div (ResampleRate * EpochSeconds)

\* epochs = [time.loc[i] for i in range(int(np.max(index)) + 1)]
pb_epochs(filtered) ==
    [e \in 1..(EpochIndex(Len(filtered) - 1) + 1) |->
        LET rows == SelectSeq(RowIndex(filtered), LAMBDA k : EpochIndex(k) = e - 1)
        IN  [j \in 1..Len(rows) |-> filtered[rows[j] + 1]]]

\* epoch.var(axis=0): the sample variance (ddof=1), not a number for one row
pd_var(epoch) ==
    LET c  == Len(epoch)
        sq == [i \in 1..c |-> epoch[i] * epoch[i]]
    IN  IF c < 2 THEN NaN
        ELSE Num(c * SeqSum(sq) - SeqSum(epoch) * SeqSum(epoch), c * (c - 1))

\* np.log(epoch.var(axis=0) / 1000)
pb_logvar(epoch) ==
    LET v == pd_var(epoch)
    IN  IF IsNaN(v) THEN NaN ELSE np_log(Num(v.n, v.d * MsConversion))

\* pd.concat(rows).mean(): ValueError for no rows, -inf as soon as one row is
\* -inf, the mean of the logarithms otherwise
pd_concat_mean(rows) ==
    IF Len(rows) = 0 THEN [raised |-> "ValueError", value |-> NaN]
    ELSE IF \E i \in 1..Len(rows) : rows[i].k = "-inf"
    THEN [raised |-> "", value |-> [k |-> "-inf", of |-> <<>>]]
    ELSE [raised |-> "", value |-> [k |-> "mean", of |-> rows]]

_ecg_rsa_pb(period, sr, cont, filtered) ==
    IF cont
    THEN [raised |-> "", logvar |-> <<>>, rsa |-> None]
    ELSE LET epochs   == pb_epochs(filtered)
             variance == [e \in 1..Len(epochs) |-> pb_logvar(epochs[e])]
             rows     == SelectSeq(variance, LAMBDA row : ~IsNaN(row))
             mean     == pd_concat_mean(rows)
         IN  IF mean.raised # ""
             THEN [raised |-> mean.raised, logvar |-> variance, rsa |-> <<>>]
             ELSE [raised |-> "", logvar |-> variance,
                   rsa |-> [RSA_PorgesBohrer |-> mean.value]]

-----------------------------------------------------------------------------
(* ecg_rsa, lines 149-156: the result *)

\* rsa = {}; rsa.update(a); rsa.update(b)
dict_update(a, b) ==
    [key \in (DOMAIN a) \cup (DOMAIN b) |-> IF key \in DOMAIN b THEN b[key] ELSE a[key]]

\* As assemble, without the Porges-Bohrer estimate.
assemble_p2t_only(cont, p2t, pb) ==
    IF ~cont THEN dict_update(<<>>, p2t)
    ELSE [RSA_P2T |-> p2t]

assemble(cont, p2t, pb) ==
    IF ~cont THEN dict_update(dict_update(<<>>, p2t), pb)
    ELSE [RSA_P2T |-> p2t]

-----------------------------------------------------------------------------
(* _ecg_rsa_formatinput *)

\* [col for col in table.columns if "RSP_Phase" in col]
rsp_cols(table) == table.columns \cap {"RSP_Phase", "RSP_Phase_Completion"}

SurrogateWarning == "RSP signal not found"
MismatchWarning == "Couldn't find rsp cycles onsets and centers"

\* pd.concat([ecg, rsp], axis=1); rsp = None adds nothing
pd_concat(ecg, rsp) ==
    IF rsp = None THEN ecg
    ELSE [columns |-> ecg.columns \cup rsp.columns,
          rows |-> ecg.rows,
          ECG_Rate |-> ecg.ECG_Rate,
          ECG_R_Peaks |-> ecg.ECG_R_Peaks,
          RSP_Phase |-> rsp.RSP_Phase,
          RSP_Phase_Completion |-> rsp.RSP_Phase_Completion,
          RSP_Peaks |-> rsp.RSP_Peaks]

\* As no_heart_rate, asking for the rate column alone.
no_rate_column(table) == ~("ECG_Rate" \in table.columns)

\* lines 329-340: the table has neither a rate column nor a beat-marker column
no_heart_rate(table) ==
    ~("ECG_Rate" \in table.columns) /\ ~("ECG_R_Peaks" \in table.columns)

\* lines 366-372: the beat indices, from the list when there is one, from the
\* table otherwise; NameError becomes ValueError
resolve_rpeaks(table, beats) ==
    LET found == IF ~beats.given THEN sanitize_table(table)
                 ELSE sanitize_list(beats.list)
    IN  [raised |-> IF found.raised = "NameError" THEN "ValueError" ELSE "",
         peaks |-> found.peaks]

\* ecg: [is_tuple, table]; rsp: None or a table; beats: NoRpeaks or
\* Rpeaks(list); processed: the table rsp_process returns for the surrogate signal.
_ecg_rsa_formatinput(ecg, rsp, beats, sr, processed) ==
    LET table   == ecg.table
        \* lines 324-326
        rpeaks0 == IF ecg.is_tuple THEN NoRpeaks ELSE beats
        \* lines 329-340
        no_rate == no_heart_rate(table)
        period  == IF "ECG_Rate" \in table.columns THEN table.ECG_Rate
                   ELSE signal_rate(rpeaks0, sr, table.rows)
        \* lines 341-353
        derive1 == rsp = None /\ Cardinality(rsp_cols(table)) # 2
        rsp1    == IF derive1 THEN processed ELSE rsp
        \* lines 355-364
        derive2 == rsp1 # None /\ Cardinality(rsp_cols(rsp1)) # 2
        rsp2    == IF derive2 THEN processed ELSE rsp1
        warned  == (IF derive1 THEN <<SurrogateWarning>> ELSE <<>>)
                   \o (IF derive2 THEN <<SurrogateWarning>> ELSE <<>>)
        \* lines 366-372
        found   == resolve_rpeaks(table, rpeaks0)
    IN  IF no_rate
        THEN [raised |-> "ValueError", warned |-> <<>>, signals |-> <<>>,
              ecg_period |-> <<>>, rpeaks |-> <<>>]
        ELSE IF found.raised # ""
        THEN [raised |-> found.raised, warned |-> warned, signals |-> <<>>,
              ecg_period |-> <<>>, rpeaks |-> <<>>]
        ELSE [raised |-> "", warned |-> warned,
              signals |-> pd_concat(table, rsp2),
              ecg_period |-> period, rpeaks |-> found.peaks]

-----------------------------------------------------------------------------
(* The call, step by step. *)

NoError == [type |-> "", in |-> ""]

Fail(type, in) ==
    /\ pc' = "failed"
    /\ error' = [type |-> type, in |-> in]

\* line 127
FormatInput ==
    /\ pc = "format"
    /\ LET r == _ecg_rsa_formatinput(ecg_signals, rsp_signals, rpeaks_arg,
                                     sampling_rate, rsp_processed)
       IN  /\ warnings' = warnings \o r.warned
           /\ IF r.raised # ""
              THEN /\ Fail(r.raised, "_ecg_rsa_formatinput")
                   /\ UNCHANGED <<signals, ecg_period, rpeaks>>
              ELSE /\ pc' = "cycles"
                   /\ signals' = r.signals
                   /\ ecg_period' = r.ecg_period
                   /\ rpeaks' = r.rpeaks
                   /\ UNCHANGED error
    /\ UNCHANGED <<ecg_signals, rsp_signals, rpeaks_arg, sampling_rate,
                   continuous, rsp_processed, zero_mean_filtered, rsp_cycles,
                   rsp_onsets, rsp_peaks, cycles_rri, rsa_values, rsa_p2t,
                   epoch_logvar, rsa_pb, rsa>>

\* lines 130-131
ExtractCycles ==
    /\ pc = "cycles"
    /\ rsp_cycles' = _ecg_rsa_cycles(signals)
    /\ rsp_onsets' = rsp_cycles'.RSP_Inspiration_Onsets
    /\ pc' = "peaks"
    /\ UNCHANGED <<ecg_signals, rsp_signals, rpeaks_arg, sampling_rate,
                   continuous, rsp_processed, zero_mean_filtered, signals,
                   ecg_period, rpeaks, rsp_peaks, cycles_rri, rsa_values,
                   rsa_p2t, epoch_logvar, rsa_pb, rsa, warnings, error>>

\* lines 132-138
SelectPeaks ==
    /\ pc = "peaks"
    /\ IF Len(rsp_onsets) = 0
       THEN /\ Fail("IndexError", "ecg_rsa")
            /\ UNCHANGED <<rsp_peaks, warnings>>
       ELSE LET r == select_peaks(signals, rsp_onsets)
            IN  /\ rsp_peaks' = r.rsp_peaks
                /\ warnings' = IF r.warned THEN Append(warnings, MismatchWarning)
                               ELSE warnings
                /\ pc' = "p2t"
                /\ UNCHANGED error
    /\ UNCHANGED <<ecg_signals, rsp_signals, rpeaks_arg, sampling_rate,
                   continuous, rsp_processed, zero_mean_filtered, signals,
                   ecg_period, rpeaks, rsp_cycles, rsp_onsets, cycles_rri,
                   rsa_values, rsa_p2t, epoch_logvar, rsa_pb, rsa>>

\* lines 143-145
PeakToTrough ==
    /\ pc = "p2t"
    /\ LET r == _ecg_rsa_p2t(rsp_onsets, rpeaks, sampling_rate, continuous,
                             ecg_period, rsp_peaks)
       IN  /\ cycles_rri' = r.cycles
           /\ rsa_values' = r.values
           /\ IF r.raised # ""
              THEN /\ Fail(r.raised, "_ecg_rsa_p2t")
                   /\ UNCHANGED rsa_p2t
              ELSE /\ rsa_p2t' = r.rsa
                   /\ pc' = "pb"
                   /\ UNCHANGED error
    /\ UNCHANGED <<ecg_signals, rsp_signals, rpeaks_arg, sampling_rate,
                   continuous, rsp_processed, zero_mean_filtered, signals,
                   ecg_period, rpeaks, rsp_cycles, rsp_onsets, rsp_peaks,
                   epoch_logvar, rsa_pb, rsa, warnings>>

\* line 147
PorgesBohrer ==
    /\ pc = "pb"
    /\ LET r == _ecg_rsa_pb(ecg_period, sampling_rate, continuous,
                            zero_mean_filtered)
       IN  /\ epoch_logvar' = r.logvar
           /\ IF r.raised # ""
              THEN /\ Fail(r.raised, "_ecg_rsa_pb")
                   /\ UNCHANGED rsa_pb
              ELSE /\ rsa_pb' = r.rsa
                   /\ pc' = "assemble"
                   /\ UNCHANGED error
    /\ UNCHANGED <<ecg_signals, rsp_signals, rpeaks_arg, sampling_rate,
                   continuous, rsp_processed, zero_mean_filtered, signals,
                   ecg_period, rpeaks, rsp_cycles, rsp_onsets, rsp_peaks,
                   cycles_rri, rsa_values, rsa_p2t, rsa, warnings>>

\* lines 149-156
Assemble ==
    /\ pc = "assemble"
    /\ rsa' = assemble(continuous, rsa_p2t, rsa_pb)
    /\ pc' = "done"
    /\ UNCHANGED <<ecg_signals, rsp_signals, rpeaks_arg, sampling_rate,
                   continuous, rsp_processed, zero_mean_filtered, signals,
                   ecg_period, rpeaks, rsp_cycles, rsp_onsets, rsp_peaks,
                   cycles_rri, rsa_values, rsa_p2t, epoch_logvar, rsa_pb,
                   warnings, error>>

Next ==
    \/ FormatInput
    \/ ExtractCycles
    \/ SelectPeaks
    \/ PeakToTrough
    \/ PorgesBohrer
    \/ Assemble

-----------------------------------------------------------------------------
(* The arguments of a call. *)

Markers(rows) == [1..rows -> {0, 1}]

\* RSP_Phase_Completion as rsp_process writes it: 0 on the first row of every
\* phase, a positive fraction (written 1) on its other rows.
CompletionOf(phase) ==
    [i \in 1..Len(phase) |-> IF i = 1 THEN 0
                             ELSE IF phase[i] # phase[i - 1] THEN 0 ELSE 1]

\* RSP_Peaks as rsp_process writes it: a peak where an expiration begins.
PeaksOf(phase) ==
    [i \in 1..Len(phase) |-> IF phase[i] = 0 /\ CompletionOf(phase)[i] = 0
                             THEN 1 ELSE 0]

RspTable(phase, completion, peaks) ==
    [columns |-> {"RSP_Phase", "RSP_Phase_Completion", "RSP_Peaks"},
     RSP_Phase |-> phase,
     RSP_Phase_Completion |-> completion,
     RSP_Peaks |-> peaks]

\* A respiration table without the two phase columns.
UnrecognizedRsp ==
    [columns |-> {"RSP_Raw"}, RSP_Phase |-> <<>>,
     RSP_Phase_Completion |-> <<>>, RSP_Peaks |-> <<>>]

\* A cardiac table with the columns cols; rsp is the respiration table it
\* carries itself (bio_process), or None.
EcgTable(cols, beat_markers, rsp) ==
    [columns |-> cols \cup (IF rsp = None THEN {} ELSE rsp.columns),
     rows |-> Len(beat_markers),
     ECG_Rate |-> IF "ECG_Rate" \in cols
                  THEN [i \in 1..Len(beat_markers) |-> "bpm"] ELSE <<>>,
     ECG_R_Peaks |-> IF "ECG_R_Peaks" \in cols THEN beat_markers ELSE <<>>,
     RSP_Phase |-> IF rsp = None THEN <<>> ELSE rsp.RSP_Phase,
     RSP_Phase_Completion |-> IF rsp = None THEN <<>>
                              ELSE rsp.RSP_Phase_Completion,
     RSP_Peaks |-> IF rsp = None THEN <<>> ELSE rsp.RSP_Peaks]

\* The filtered residual, by shape: 0 constant, 1 alternating, 2 a ramp of
\* period three, 3 alternating with a doubled amplitude from the second epoch
\* on.
Residual(shape, length) ==
    [i \in 1..length |->
        LET k == i - 1
        IN  CASE shape = 0 -> 0
              [] shape = 1 -> k % 2
              [] shape = 2 -> k % 3
              [] OTHER -> IF EpochIndex(k) = 0 THEN k % 2 ELSE 2 * (k % 2)]

\* The call with these arguments, before its first step.  rsp_kind: "table"
\* (a respiration table), "none" (no respiration at all), "combined" (none,
\* the cardiac table carries it), "unrecognized" (a table without the phase
\* columns).  resp is the respiration table in play: the one passed, or the
\* one rsp_process makes of the surrogate signal.
Call(cols, is_tuple, beat_markers, with_rpeaks, rsp_kind, resp, sr, cont, filtered) ==
    /\ ecg_signals = [is_tuple |-> is_tuple,
                      table |-> EcgTable(cols, beat_markers,
                                         IF rsp_kind = "combined" THEN resp
                                         ELSE None)]
    /\ rsp_signals = CASE rsp_kind = "table" -> resp
                       [] rsp_kind = "unrecognized" -> UnrecognizedRsp
                       [] OTHER -> None
    /\ rpeaks_arg = IF with_rpeaks THEN Rpeaks(np_where(beat_markers, 1)) ELSE NoRpeaks
    /\ sampling_rate = sr
    /\ continuous = cont
    /\ rsp_processed = resp
    /\ zero_mean_filtered = filtered
    /\ pc = "format"
    /\ signals = <<>>
    /\ ecg_period = <<>>
    /\ rpeaks = <<>>
    /\ rsp_cycles = <<>>
    /\ rsp_onsets = <<>>
    /\ rsp_peaks = <<>>
    /\ cycles_rri = <<>>
    /\ rsa_values = <<>>
    /\ rsa_p2t = <<>>
    /\ epoch_logvar = <<>>
    /\ rsa_pb = <<>>
    /\ rsa = <<>>
    /\ warnings = <<>>
    /\ error = NoError

RspKinds == {"table", "none", "combined", "unrecognized"}
EcgColumns == {"ECG_Rate", "ECG_R_Peaks"}
AllBeats(rows) == [i \in 1..rows |-> 1]
OneEpoch == ResampleRate * EpochSeconds

\* A residual of two samples, for the calls that are not about Porges-Bohrer.
ShortResidual == <<0, 1>>

\* The whole call: every shape of the arguments, every respiration table of
\* RowsOrch rows with any peak markers.
Init ==
    \E cols \in SUBSET EcgColumns, is_tuple \in BOOLEAN, with_rpeaks \in BOOLEAN,
       rsp_kind \in RspKinds, cont \in BOOLEAN,
       phase \in Markers(RowsOrch), peaks \in Markers(RowsOrch) :
        Call(cols, is_tuple, AllBeats(RowsOrch), with_rpeaks, rsp_kind,
             RspTable(phase, CompletionOf(phase), peaks),
             DefaultSamplingRate, cont, ShortResidual)

Spec == Init /\ [][Next]_vars

\* The spec's example of cycle extraction.
ExamplePhase == <<1, 1, 1, 0, 0, 0, 1, 1, 0, 0>>

\* Cycle extraction: any phase and phase-completion columns of RowsCycles rows,
\* and the example.
InitCycles ==
    \E cont \in BOOLEAN :
    \E t \in {RspTable(ph, co, PeaksOf(ph)) :
                 ph \in Markers(RowsCycles), co \in Markers(RowsCycles)}
             \cup {RspTable(ExamplePhase, CompletionOf(ExamplePhase),
                            PeaksOf(ExamplePhase))} :
        Call(EcgColumns, FALSE, AllBeats(Len(t.RSP_Phase)), TRUE, "table", t,
             DefaultSamplingRate, cont, ShortResidual)

SpecCycles == InitCycles /\ [][Next]_vars

\* Peak-to-trough: every respiration table rsp_process can write on RowsP2T
\* rows, every beat list, both modes, at the default sampling rate.
InitP2T ==
    \E phase \in Markers(RowsP2T), beat_markers \in Markers(RowsP2T),
       cont \in BOOLEAN :
        Call(EcgColumns, FALSE, beat_markers, TRUE, "table",
             RspTable(phase, CompletionOf(phase), PeaksOf(phase)),
             DefaultSamplingRate, cont, ShortResidual)

SpecP2T == InitP2T /\ [][Next]_vars

SimplePhase == <<1, 0, 1, 0>>

\* Porges-Bohrer: residuals of every length up to MaxSamples.
InitPB ==
    \E shape \in 0..3, length \in 1..MaxSamples, cont \in BOOLEAN :
        Call(EcgColumns, FALSE, AllBeats(Len(SimplePhase)), TRUE, "table",
             RspTable(SimplePhase, CompletionOf(SimplePhase), PeaksOf(SimplePhase)),
             DefaultSamplingRate, cont, Residual(shape, length))

SpecPB == InitPB /\ [][Next]_vars

-----------------------------------------------------------------------------
(* What the claims speak of. *)

Range(s) == {s[i] : i \in DOMAIN s}

StrictlyIncreasing(s) == \A i \in 1..(Len(s) - 1) : s[i] < s[i + 1]

SetMax(S) == CHOOSE x \in S : \A y \in S : y <= x
SetMin(S) == CHOOSE x \in S : \A y \in S : x <= y

RECURSIVE SetSum(_, _)
SetSum(S, f) ==
    IF S = {} THEN 0
    ELSE LET x == CHOOSE y \in S : TRUE IN f[x] + SetSum(S \ {x}, f)

\* The step has been taken (whether or not the call failed later).
CyclesRan == pc \in {"peaks", "p2t", "pb", "assemble", "done"}
             \/ error.in \in {"ecg_rsa", "_ecg_rsa_p2t", "_ecg_rsa_pb"}
PeaksRan == pc \in {"p2t", "pb", "assemble", "done"}
            \/ error.in \in {"_ecg_rsa_p2t", "_ecg_rsa_pb"}
P2TRan == pc \in {"pb", "assemble", "done"}
          \/ error.in \in {"_ecg_rsa_p2t", "_ecg_rsa_pb"}
P2TReturned == pc \in {"pb", "assemble", "done"} \/ error.in = "_ecg_rsa_pb"
PBRan == pc \in {"assemble", "done"} \/ error.in = "_ecg_rsa_pb"
PBReturned == pc \in {"assemble", "done"}

\* The beat indices in [onset_i, onset_{i+1}).
BeatsIn(i) == {b \in Range(rpeaks) : rsp_onsets[i] <= b /\ b < rsp_onsets[i + 1]}

\* The differences of the consecutive members of a set of indices.
Gaps(B) == {y - x : <<x, y>> \in
               {q \in B \X B : q[1] < q[2] /\ ~\E z \in B : q[1] < z /\ z < q[2]}}

Cycles == 1..(Len(rsp_onsets) - 1)

-----------------------------------------------------------------------------
(* Peak-to-trough *)

\* C1 as stated: every cycle with at least 2 beat indices has a defined
\* estimate, the range of its inter-beat intervals, which is >= 0.
C1_AsStated ==
    P2TRan =>
        \A i \in Cycles :
            Cardinality(BeatsIn(i)) >= 2 =>
                /\ ~IsNaN(rsa_values[i])
                /\ rsa_values[i] = Num(SetMax(Gaps(BeatsIn(i))) - SetMin(Gaps(BeatsIn(i))),
                                       sampling_rate)
                /\ rsa_values[i].n >= 0

\* C1 amended: every cycle with at least 3 beat indices (2 inter-beat
\* intervals) has a defined estimate, max minus min of the consecutive
\* inter-beat intervals (differences of beat indices over the sampling rate),
\* which is >= 0.
C1_RangeOfIntervals ==
    P2TRan =>
        \A i \in Cycles :
            Cardinality(BeatsIn(i)) >= 3 =>
                /\ ~IsNaN(rsa_values[i])
                /\ rsa_values[i] = Num(SetMax(Gaps(BeatsIn(i))) - SetMin(Gaps(BeatsIn(i))),
                                       sampling_rate)
                /\ rsa_values[i].n >= 0

C1_Witness ==
    /\ P2TRan
    /\ \E i \in Cycles : Cardinality(BeatsIn(i)) >= 3 /\ rsa_values[i].n > 0
    /\ \E i \in Cycles : Cardinality(BeatsIn(i)) = 2

\* The cycles whose estimate is a number, and the numerators of the estimates.
Defined == {i \in Cycles : ~IsNaN(rsa_values[i])}
Numerator == [i \in Cycles |-> rsa_values[i].n]
SquaredDeviation ==
    [i \in Cycles |-> (Numerator[i] * Cardinality(Defined) - SetSum(Defined, Numerator))
                      * (Numerator[i] * Cardinality(Defined) - SetSum(Defined, Numerator))]

Outside(b) == b < rsp_onsets[1] \/ b >= rsp_onsets[Len(rsp_onsets)]

\* C10: the estimates are one per pair of consecutive onsets; a beat between
\* the first onset and the last lies in exactly one cycle, the one whose
\* onsets enclose it; a beat before the first onset or from the last on lies
\* in none and the estimates are those of the call without it; the beat list
\* is still the caller's and the onsets are still the extracted ones.
C10_CyclesPartitionBeats ==
    P2TRan =>
        /\ Len(rsa_values) = Len(rsp_onsets) - 1
        /\ Len(cycles_rri) = Len(rsp_onsets) - 1
        /\ \A b \in Range(rpeaks) :
              LET holding == {i \in Cycles : b \in Range(cycles_rri[i])}
              IN  IF Outside(b) THEN holding = {}
                  ELSE /\ Cardinality(holding) = 1
                       /\ \A i \in holding : rsp_onsets[i] <= b /\ b < rsp_onsets[i + 1]
        /\ rsa_values = p2t_values(p2t_cycles(rsp_onsets,
                                              SelectSeq(rpeaks, LAMBDA b : ~Outside(b))),
                                   sampling_rate)
        /\ rpeaks = rpeaks_arg.list
        /\ rsp_onsets = rsp_cycles.RSP_Inspiration_Onsets

C10_Witness ==
    /\ P2TRan
    /\ Len(rsp_onsets) >= 3
    /\ \E b \in Range(rpeaks) : b < rsp_onsets[1]
    /\ \E b \in Range(rpeaks) : b >= rsp_onsets[Len(rsp_onsets)]
    /\ \E b \in Range(rpeaks) : b = rsp_onsets[2]

-----------------------------------------------------------------------------
(* Cycle extraction *)

RowsWhere(phase_value) ==
    {r \in 0..(signals.rows - 1) :
        signals.RSP_Phase[r + 1] = phase_value /\ signals.RSP_Phase_Completion[r + 1] = 0}

-----------------------------------------------------------------------------
(* The orchestrator *)

\* The peak rows after the first inspiration onset.
Later == {r \in 0..(signals.rows - 1) :
             signals.RSP_Peaks[r + 1] = 1 /\ r > rsp_onsets[1]}

\* C9: the selected peaks are, in order, the peak rows strictly after the
\* first onset, without the last of them exactly when they are as many as the
\* onsets; the mismatch warning is printed exactly when the selected peaks
\* are not one fewer than the onsets; without the warning there is one peak
\* per cycle.
C9_PeakSelection ==
    PeaksRan =>
        /\ StrictlyIncreasing(rsp_peaks)
        /\ Range(rsp_peaks) = IF Cardinality(Later) = Len(rsp_onsets)
                              THEN Later \ {SetMax(Later)} ELSE Later
        /\ (MismatchWarning \in Range(warnings))
               <=> (Len(rsp_peaks) - Len(rsp_onsets) # -1)
        /\ ~(MismatchWarning \in Range(warnings))
               => Len(rsp_peaks) = Cardinality(Cycles)

C9_Witness ==
    /\ PeaksRan
    /\ Cardinality(Later) = Len(rsp_onsets)
    /\ Len(rsp_peaks) = Cardinality(Later) - 1
    /\ ~(MismatchWarning \in Range(warnings))
    /\ \E r \in 0..rsp_onsets[1] : signals.RSP_Peaks[r + 1] = 1

FormatFailed == pc = "failed" /\ error.in = "_ecg_rsa_formatinput"
NoCardiacFeatures == ecg_signals.table.columns \cap EcgColumns = {}
NoBeatColumn == ~("ECG_R_Peaks" \in ecg_signals.table.columns)
NothingComputed ==
    /\ signals = <<>>
    /\ cycles_rri = <<>>
    /\ rsa_p2t = <<>>
    /\ rsa_pb = <<>>
    /\ rsa = <<>>
Aligned ==
    /\ signals.rows = ecg_signals.table.rows
    /\ Len(ecg_period) = ecg_signals.table.rows
    /\ rpeaks = np_where(AllBeats(ecg_signals.table.rows), 1)

\* C5 as stated: the aligner fails with the input error, nothing computed,
\* exactly when the cardiac table has neither a rate nor a beat-marker column
\* or when no beat list is passed and the table has no beat-marker column;
\* otherwise it returns the aligned table, the period series and the beats.
C5_AsStated ==
    pc # "format" =>
        /\ FormatFailed <=> (NoCardiacFeatures \/ (~rpeaks_arg.given /\ NoBeatColumn))
        /\ FormatFailed => (error.type = "ValueError" /\ NothingComputed)
        /\ ~FormatFailed => Aligned

\* C5 amended: as stated, where a beat list passed next to a (table, info)
\* pair counts as not passed: the aligner discards it.
C5_InputErrors ==
    pc # "format" =>
        /\ FormatFailed <=>
              (NoCardiacFeatures
               \/ ((~rpeaks_arg.given \/ ecg_signals.is_tuple) /\ NoBeatColumn))
        /\ FormatFailed => (error.type = "ValueError" /\ NothingComputed)
        /\ ~FormatFailed => Aligned

C5_Witness ==
    /\ FormatFailed
    /\ ~NoCardiacFeatures
    /\ ~rpeaks_arg.given
    /\ warnings # <<>>

C4_AsStated ==
    warnings # <<>> => ~(pc = "failed" /\ error.in \in {"_ecg_rsa_p2t", "_ecg_rsa_pb"})

-----------------------------------------------------------------------------
(* Porges-Bohrer *)

\* The prime factors of n >= 1, with their multiplicities, from d on.
RECURSIVE Factors(_, _)
Factors(n, d) ==
    IF n = 1 THEN EmptyBag
    ELSE IF d * d > n THEN SetToBag({n})
    ELSE IF n % d = 0 THEN SetToBag({d}) (+) Factors(n \div d, d)
    ELSE Factors(n, d + 1)

RECURSIVE ProductFactors(_, _)
ProductFactors(rows, part) ==
    IF rows = <<>> THEN EmptyBag
    ELSE Factors(IF part = "n" THEN Head(rows).n ELSE Head(rows).d, 2)
         (+) ProductFactors(Tail(rows), part)

Times(bag, c) == [e \in DOMAIN bag |-> c * bag[e]]

\* Two means of logarithms are the same real number: with a over m terms and
\* b over n terms, n * sum(a) = m * sum(b), compared through the prime
\* factorisations of the numerators and denominators.
SameReal(a, b) ==
    IF a.k # "mean" \/ b.k # "mean" THEN a.k = b.k
    ELSE Times(ProductFactors(a.of, "n"), Len(b.of))
             (+) Times(ProductFactors(b.of, "d"), Len(a.of))
         = Times(ProductFactors(b.of, "n"), Len(a.of))
             (+) Times(ProductFactors(a.of, "d"), Len(b.of))

\* The samples of epoch e (from 0), by the time of each sample.
SamplesOf(e) ==
    {k \in 0..(Len(zero_mean_filtered) - 1) :
        e * EpochSeconds * ResampleRate <= k /\ k < (e + 1) * EpochSeconds * ResampleRate}

Complete(e) == Cardinality(SamplesOf(e - 1)) = EpochSeconds * ResampleRate

\* C3 as stated: when no epoch has a finite log-variance, as for a constant
\* input, the estimator raises and returns nothing.
C3_AsStated ==
    (PBRan /\ ~continuous /\ \A e \in 1..Len(epoch_logvar) : epoch_logvar[e].k # "log") =>
        /\ pc = "failed"
        /\ error.in = "_ecg_rsa_pb"
        /\ rsa_pb = <<>>

\* C8 as stated: sample k belongs to epoch floor((k/2)/30), and the estimate is
\* the mean log-variance of the complete epochs: the samples after the last
\* complete epoch do not change it.
C8_AsStated ==
    (PBReturned /\ ~continuous) =>
        /\ \A e \in 1..Len(epoch_logvar) :
              epoch_logvar[e] = pb_logvar([j \in 1..Cardinality(SamplesOf(e - 1)) |->
                                   zero_mean_filtered[(e - 1) * EpochSeconds * ResampleRate + j]])
        /\ (\E e \in 1..Len(epoch_logvar) : Complete(e)) =>
              SameReal(rsa_pb.RSA_PorgesBohrer,
                       pd_concat_mean(SelectSeq(
                           SubSeq(epoch_logvar, 1,
                                  Len(zero_mean_filtered) \div (EpochSeconds * ResampleRate)),
                           LAMBDA row : ~IsNaN(row))).value)

====
